---------------------------- MODULE Spec2Model ----------------------------
(***************************************************************************)
(* A model of quantify-research's polygon.io fetch scripts:                *)
(*   polygon_io_fetcher.py  PolygonIOFetcher: the date-range paginator     *)
(*                          (getAggregateData, getWriteAggData), the       *)
(*                          cursor paginator (getAllTickers) and the CSV   *)
(*                          sink (writeAggsToCSV, writeTickersToCSV);      *)
(*   polygon_io_scrape.py   the batch fan-out over worker processes.       *)
(*                                                                         *)
(* Dates are day ordinals (integers) and a timedelta is a number of days.  *)
(* Ticker symbols are naturals, ordered as the provider orders the         *)
(* strings.  An optional attribute is a sequence of length 0 (None) or 1.  *)
(* A file is [exists, rows]; a row is a sequence of the strings that       *)
(* csv.writer puts between the delimiters.                                 *)
(***************************************************************************)
EXTENDS Integers, Sequences, FiniteSets, TLC

VARIABLES
    \* ---- PolygonIOFetcher, aggregates
    max_date_range,   \* self.max_date_range, in days
    call,             \* the arguments of the running get*AggData call
    curr_date_to,     \* the local curr_date_to
    apc,              \* "loop" | "done": position in get*AggData
    output,           \* the local output (in-memory variant)
    requests,         \* history: the get_aggs requests sent, in order
    pages,            \* history: the pages get_aggs returned, in order
    aresult,          \* "running" | "returned" | "raised"
    returned,         \* the value a finished getAggregateData returned
    \* ---- getAggregateData run beside getWriteAggData on the same pages
    m_curr_date_to,   \* its local curr_date_to
    m_apc,            \* "loop" | "done": its position
    m_output,         \* its local output
    m_requests,       \* history: the get_aggs requests it sent, in order
    m_aresult,        \* "running" | "returned" | "raised"
    m_returned,       \* the value it returned
    \* ---- the CSV sink
    file,             \* the file at filename: [exists, rows]
    before,           \* history: the file before the last write call
    lastCall,         \* history: the arguments of the last write call
    firstCall,        \* history: the arguments of the first write call
    nwrites,          \* history: number of write calls made
    allAppend,        \* history: every write call so far had append=True
    dataRows,         \* history: the data rows of all write calls, in order
    initFile,         \* history: the file before the first write call
    \* ---- PolygonIOFetcher, tickers
    tlimit,           \* the limit argument of getAllTickers
    toutput,          \* the local output of getAllTickers
    tickers,          \* the local tickers (the last page)
    tpc,              \* "first" | "loop" | "done"
    treqs,            \* history: the list_tickers requests sent
    tpages,           \* history: the pages list_tickers returned
    \* ---- polygon_io_scrape.py
    all_stock_tickers,\* the ticker list read from the reference client
    processes,        \* the batches handed to the Process objects
    ppc,              \* the parent: [at |-> "start"|"join"|"end", i]
    wstate,           \* per process: "new" | "running" | "crashed" | "finished"
    widx,             \* per process: index of the ticker being handled
    wphase,           \* per process: "fetch" | "write"
    attempted,        \* history, per process: tickers attempted, in order
    printed,          \* history, per process: the last line printed
    wrote             \* history, per process: the file it wrote last, "" if none

twinVars  == <<m_curr_date_to, m_apc, m_output, m_requests, m_aresult,
               m_returned>>
aggVars   == <<max_date_range, call, curr_date_to, apc, output, requests,
               pages, aresult, returned, twinVars>>
sinkVars  == <<file, before, lastCall, firstCall, nwrites, allAppend,
               dataRows, initFile>>
tickVars  == <<tlimit, toutput, tickers, tpc, treqs, tpages>>
batchVars == <<all_stock_tickers, processes, ppc, wstate, widx, wphase,
               attempted, printed, wrote>>
vars      == <<aggVars, sinkVars, tickVars, batchVars>>

-----------------------------------------------------------------------------
(* Bounds of the model *)

MaxWindow  == 2   \* max_date_range ranges over 1..MaxWindow days
MaxSpan    == 8   \* date_to - date_from ranges over 0..MaxSpan days
MaxFrom    == 1   \* date_from ranges over 0..MaxFrom
MaxLimit   == 2   \* limit ranges over 1..MaxLimit
MaxRows    == 2   \* a write call gets at most MaxRows records
MaxWrites  == 2   \* write calls made to the file
MaxSym     == 4   \* the provider lists ticker symbols 1..MaxSym
MaxTLimit  == 2   \* getAllTickers' limit ranges over 1..MaxTLimit
MaxRequests == 3  \* list_tickers requests one getAllTickers call may send
MaxTickers == 31  \* all_stock_tickers holds 0..MaxTickers tickers

-----------------------------------------------------------------------------
(* Helpers *)

None == <<>>
Some(v) == <<v>>

\* All sequences over S of length at most n.
SeqsUpTo(S, n) == UNION {[1..m -> S] : m \in 0..n}

RECURSIVE Concat(_)
\* The concatenation of a sequence of sequences.
Concat(ss) == IF ss = <<>> THEN <<>> ELSE Head(ss) \o Concat(Tail(ss))

\* The index of the first occurrence of x in s, 0 if none.
IndexOf(s, x) ==
    IF \E i \in 1..Len(s) : s[i] = x
    THEN CHOOSE i \in 1..Len(s) : s[i] = x /\ \A j \in 1..(i-1) : s[j] # x
    ELSE 0

-----------------------------------------------------------------------------
(* Records the provider returns *)

\* polygon.rest.models.aggs.Agg: the attributes writeAggsToCSV reads.
AggPool ==
    { [open |-> 10, high |-> 12, low |-> 9, close |-> 11, volume |-> 100,
       vwap |-> 10, timestamp |-> 1, transactions |-> Some(5), otc |-> None],
      [open |-> 11, high |-> 11, low |-> 11, close |-> 11, volume |-> 0,
       vwap |-> 11, timestamp |-> 2, transactions |-> None, otc |-> Some(TRUE)] }

TickerNames == {"GOOGL"}

-----------------------------------------------------------------------------
(* csv.writer: how one value becomes a field *)

\* str() of an int.
CsvInt(n) == ToString(n)
\* an optional int: None is written as the empty string.
CsvOptInt(v) == IF v = None THEN "" ELSE ToString(v[1])
\* an optional bool: None is "", True is "True", False is "False".
CsvOptBool(v) == IF v = None THEN "" ELSE IF v[1] THEN "True" ELSE "False"

\* an optional string: None is "", a string is written as it is.
CsvOptStr(v) == IF v = None THEN "" ELSE v[1]

-----------------------------------------------------------------------------
(* The CSV sink: writeAggsToCSV and writeTickersToCSV *)

NoFile == [exists |-> FALSE, rows |-> <<>>]

\* The header tuple of writeAggsToCSV.
AggHeader ==
    <<"ticker", "open", "high", "close", "volume", "vwap", "timestamp",
      "transactions", "otc">>

\* The tuple writeAggsToCSV writes for one Agg.
AggRow(ticker, agg) ==
    <<ticker, CsvInt(agg.open), CsvInt(agg.high), CsvInt(agg.low),
      CsvInt(agg.close), CsvInt(agg.volume), CsvInt(agg.vwap),
      CsvInt(agg.timestamp), CsvOptInt(agg.transactions),
      CsvOptBool(agg.otc)>>

AggRows(ticker, aggs) == [i \in 1..Len(aggs) |-> AggRow(ticker, aggs[i])]

\* The header tuple of writeTickersToCSV.
TickerHeader ==
    <<"ticker", "active", "cik", "composite_figi", "currency_name",
      "currency_symbol", "base_currency_symbol", "base_currency_name",
      "delisted_utc", "last_updated_utc", "locale", "market",
      "primary_exchange", "share_class_figi", "type", "source_feed">>

\* The text of a ticker symbol (symbols are naturals in the model).
SymName(n) == "T" \o ToString(n)

\* The tuple writeTickersToCSV writes for one Ticker.
TickerRow(t) ==
    <<SymName(t.ticker), CsvOptBool(t.active), CsvOptStr(t.cik),
      CsvOptStr(t.composite_figi), CsvOptStr(t.currency_name),
      CsvOptStr(t.currency_symbol), CsvOptStr(t.base_currency_symbol),
      CsvOptStr(t.base_currency_name), CsvOptStr(t.delisted_utc),
      CsvOptStr(t.last_updated_utc), CsvOptStr(t.locale),
      CsvOptStr(t.market), CsvOptStr(t.primary_exchange),
      CsvOptStr(t.share_class_figi), CsvOptStr(t.type),
      CsvOptStr(t.source_feed)>>

TickerRows(ts) == [i \in 1..Len(ts) |-> TickerRow(ts[i])]

\* Mutant: the header is written by every call.
AddHeaderAlways(append, exists) == TRUE

\* add_header: False only when appending to a file that is there.
AddHeader(append, exists) == ~(append /\ exists)

\* Mutant: the file is always opened for appending.
ModeAppend(append) == "a"

\* Mutant: the file is always opened for writing from the start.
ModeTruncate(append) == "w"

\* mode = 'a' if append else 'w'
Mode(append) == IF append THEN "a" ELSE "w"

\* open(filename, mode): 'a' keeps what is there (creating the file when it
\* is not), 'w' truncates; writing goes to the end.
Open(f, mode) ==
    IF mode = "a" /\ f.exists
    THEN [exists |-> TRUE, rows |-> f.rows]
    ELSE [exists |-> TRUE, rows |-> <<>>]

\* The body shared by the two writers: decide on the header from the file as
\* it is before open(), open it, write the header if asked, then the rows.
WriteCSV(f, header, rows, append) ==
    LET add_header == AddHeader(append, f.exists)
        opened     == Open(f, Mode(append))
    IN  [exists |-> TRUE,
         rows   |-> opened.rows
                    \o (IF add_header THEN <<header>> ELSE <<>>)
                    \o rows]

writeAggsToCSV(f, ticker, aggs, append) ==
    WriteCSV(f, AggHeader, AggRows(ticker, aggs), append)

writeTickersToCSV(f, ts, append) ==
    WriteCSV(f, TickerHeader, TickerRows(ts), append)

-----------------------------------------------------------------------------
(* Write calls, with the history the properties read *)

NoCall ==
    [kind |-> "none", append |-> TRUE, header |-> <<>>, rows |-> <<>>,
     ticker |-> "", records |-> <<>>]

\* One write call that takes the file from file to newfile.
Written(kind, header, rows, append, ticker, records, newfile) ==
    LET c == [kind |-> kind, append |-> append, header |-> header,
              rows |-> rows, ticker |-> ticker, records |-> records]
    IN  /\ file' = newfile
        /\ before' = file
        /\ lastCall' = c
        /\ firstCall' = IF nwrites = 0 THEN c ELSE firstCall
        /\ nwrites' = nwrites + 1
        /\ allAppend' = (allAppend /\ append)
        /\ dataRows' = dataRows \o rows
        /\ initFile' = initFile

\* self.writeAggsToCSV(filename, ticker, aggs, append)
CallWriteAggs(ticker, aggs, append) ==
    Written("aggs", AggHeader, AggRows(ticker, aggs), append, ticker, aggs,
            writeAggsToCSV(file, ticker, aggs, append))

\* self.writeTickersToCSV(filename, tickers, append)
CallWriteTickers(ts, append) ==
    Written("tickers", TickerHeader, TickerRows(ts), append, "", ts,
            writeTickersToCSV(file, ts, append))

SinkStart(f) ==
    /\ file = f
    /\ initFile = f
    /\ before = f
    /\ lastCall = NoCall
    /\ firstCall = NoCall
    /\ nwrites = 0
    /\ allAppend = TRUE
    /\ dataRows = <<>>

-----------------------------------------------------------------------------
(* The date-range paginator: getAggregateData and getWriteAggData *)

\* Mutant: the span is counted in days inclusive of both ends.
LoopCondInclusive(cdt, date_from, window) == cdt - date_from + 1 >= window

\* while curr_date_to - date_from >= self.max_date_range
LoopCond(cdt, date_from, window) == cdt - date_from >= window

\* curr_date_from = curr_date_to - self.max_date_range
WindowFrom(cdt, window) == cdt - window

\* Mutant: the next window ends where the last one started.
NextDateToSameDay(cdf) == cdf

\* Mutant: the next window ends two days before the last one started.
NextDateToGap(cdf) == cdf - 2

\* curr_date_to = curr_date_from - timedelta(days=1)
NextDateTo(cdf) == cdf - 1

\* Mutant: only a page above the limit raises.
LimitReachedStrict(aggs, limit) == Len(aggs) > limit

\* if len(aggs) >= limit: raise Exception(...)
LimitReached(aggs, limit) == Len(aggs) >= limit

\* Mutant: an empty page does not end the fetch.
NoDataNever(aggs) == Len(aggs) < 0

\* if len(aggs) <= 0: return
NoData(aggs) == Len(aggs) <= 0

\* Mutant: the new page goes in front of the older bars.
ExtendFront(out, aggs) == aggs \o out

\* output += aggs
Extend(out, aggs) == out \o aggs

\* The get_aggs call inside the loop.
LoopRequest(c, cdf, cdt) ==
    [ticker |-> c.ticker, multiplier |-> c.interval, timespan |-> c.timespan,
     from_ |-> cdf, to |-> cdt, adjusted |-> Some(c.adjusted),
     limit |-> c.limit]

\* The get_aggs call after the loop: it passes no adjusted argument.
FinalRequest(c, cdt) ==
    [ticker |-> c.ticker, multiplier |-> c.interval, timespan |-> c.timespan,
     from_ |-> c.date_from, to |-> cdt, adjusted |-> None,
     limit |-> c.limit]

\* The get_aggs call inside the loop of getWriteAggData.
WriteLoopRequest(c, cdf, cdt) ==
    [ticker |-> c.ticker, multiplier |-> c.interval, timespan |-> c.timespan,
     from_ |-> cdf, to |-> cdt, adjusted |-> Some(c.adjusted),
     limit |-> c.limit]

\* Mutant: the last request of getWriteAggData passes adjusted.
WriteFinalRequestAdjusted(c, cdt) ==
    [ticker |-> c.ticker, multiplier |-> c.interval, timespan |-> c.timespan,
     from_ |-> c.date_from, to |-> cdt, adjusted |-> Some(c.adjusted),
     limit |-> c.limit]

\* The get_aggs call after the loop of getWriteAggData: no adjusted
\* argument either.
WriteFinalRequest(c, cdt) ==
    [ticker |-> c.ticker, multiplier |-> c.interval, timespan |-> c.timespan,
     from_ |-> c.date_from, to |-> cdt, adjusted |-> None,
     limit |-> c.limit]

\* What the provider may answer: any page of at most limit bars.
get_aggs(req) == SeqsUpTo(AggPool, req.limit)

\* The request is sent and its page received.
Sent(req, aggs) ==
    /\ requests' = Append(requests, req)
    /\ pages' = Append(pages, aggs)

Raise ==
    /\ aresult' = "raised"
    /\ apc' = "done"
    /\ UNCHANGED <<output, returned, curr_date_to>>

\* getAggregateData, one pass of the while loop
GetAggLoop ==
    /\ call.variant = "mem"
    /\ apc = "loop"
    /\ LoopCond(curr_date_to, call.date_from, max_date_range)
    /\ LET curr_date_from == WindowFrom(curr_date_to, max_date_range)
           req == LoopRequest(call, curr_date_from, curr_date_to)
       IN  \E aggs \in get_aggs(req) :
             /\ Sent(req, aggs)
             /\ IF LimitReached(aggs, call.limit) THEN Raise
                ELSE IF NoData(aggs)
                THEN /\ aresult' = "returned"
                     /\ returned' = output
                     /\ apc' = "done"
                     /\ UNCHANGED <<output, curr_date_to>>
                ELSE /\ output' = Extend(output, aggs)
                     /\ curr_date_to' = NextDateTo(curr_date_from)
                     /\ UNCHANGED <<apc, aresult, returned>>
    /\ UNCHANGED <<max_date_range, call, twinVars, sinkVars, tickVars,
                   batchVars>>

\* getAggregateData, from the end of the while loop to the return
GetAggFinal ==
    /\ call.variant = "mem"
    /\ apc = "loop"
    /\ ~LoopCond(curr_date_to, call.date_from, max_date_range)
    /\ LET req == FinalRequest(call, curr_date_to)
       IN  \E aggs \in get_aggs(req) :
             /\ Sent(req, aggs)
             /\ IF LimitReached(aggs, call.limit) THEN Raise
                ELSE IF NoData(aggs)
                THEN /\ aresult' = "returned"
                     /\ returned' = output
                     /\ apc' = "done"
                     /\ UNCHANGED <<output, curr_date_to>>
                ELSE /\ output' = Extend(output, aggs)
                     /\ aresult' = "returned"
                     /\ returned' = Extend(output, aggs)
                     /\ apc' = "done"
                     /\ UNCHANGED curr_date_to
    /\ UNCHANGED <<max_date_range, call, twinVars, sinkVars, tickVars,
                   batchVars>>

\* getWriteAggData, one pass of the while loop
WriteLoop ==
    /\ call.variant = "write"
    /\ apc = "loop"
    /\ LoopCond(curr_date_to, call.date_from, max_date_range)
    /\ LET curr_date_from == WindowFrom(curr_date_to, max_date_range)
           req == WriteLoopRequest(call, curr_date_from, curr_date_to)
       IN  \E aggs \in get_aggs(req) :
             /\ Sent(req, aggs)
             /\ IF LimitReached(aggs, call.limit)
                THEN Raise /\ UNCHANGED sinkVars
                ELSE IF NoData(aggs)
                THEN /\ aresult' = "returned"
                     /\ apc' = "done"
                     /\ UNCHANGED <<output, returned, curr_date_to, sinkVars>>
                ELSE /\ CallWriteAggs(call.ticker, aggs, TRUE)
                     /\ curr_date_to' = NextDateTo(curr_date_from)
                     /\ UNCHANGED <<apc, aresult, output, returned>>
    /\ UNCHANGED <<max_date_range, call, tickVars, batchVars>>

\* getWriteAggData, from the end of the while loop to the return
WriteFinal ==
    /\ call.variant = "write"
    /\ apc = "loop"
    /\ ~LoopCond(curr_date_to, call.date_from, max_date_range)
    /\ LET req == WriteFinalRequest(call, curr_date_to)
       IN  \E aggs \in get_aggs(req) :
             /\ Sent(req, aggs)
             /\ IF LimitReached(aggs, call.limit)
                THEN Raise /\ UNCHANGED sinkVars
                ELSE IF NoData(aggs)
                THEN /\ aresult' = "returned"
                     /\ apc' = "done"
                     /\ UNCHANGED <<output, returned, curr_date_to, sinkVars>>
                ELSE /\ CallWriteAggs(call.ticker, aggs, TRUE)
                     /\ aresult' = "returned"
                     /\ apc' = "done"
                     /\ UNCHANGED <<output, returned, curr_date_to>>
    /\ UNCHANGED <<max_date_range, call, tickVars, batchVars>>

\* getAggregateData given the page getWriteAggData has just received: one
\* pass of its while loop.
TwinLoop ==
    /\ m_apc = "loop"
    /\ LoopCond(m_curr_date_to, call.date_from, max_date_range)
    /\ LET curr_date_from == WindowFrom(m_curr_date_to, max_date_range)
           req == LoopRequest(call, curr_date_from, m_curr_date_to)
           aggs == pages'[Len(pages')]
       IN  /\ m_requests' = Append(m_requests, req)
           /\ IF LimitReached(aggs, call.limit)
              THEN /\ m_aresult' = "raised"
                   /\ m_apc' = "done"
                   /\ UNCHANGED <<m_output, m_returned, m_curr_date_to>>
              ELSE IF NoData(aggs)
              THEN /\ m_aresult' = "returned"
                   /\ m_returned' = m_output
                   /\ m_apc' = "done"
                   /\ UNCHANGED <<m_output, m_curr_date_to>>
              ELSE /\ m_output' = Extend(m_output, aggs)
                   /\ m_curr_date_to' = NextDateTo(curr_date_from)
                   /\ UNCHANGED <<m_apc, m_aresult, m_returned>>

\* The same, from the end of its while loop to the return.
TwinFinal ==
    /\ m_apc = "loop"
    /\ ~LoopCond(m_curr_date_to, call.date_from, max_date_range)
    /\ LET req == FinalRequest(call, m_curr_date_to)
           aggs == pages'[Len(pages')]
       IN  /\ m_requests' = Append(m_requests, req)
           /\ IF LimitReached(aggs, call.limit)
              THEN /\ m_aresult' = "raised"
                   /\ m_apc' = "done"
                   /\ UNCHANGED <<m_output, m_returned, m_curr_date_to>>
              ELSE IF NoData(aggs)
              THEN /\ m_aresult' = "returned"
                   /\ m_returned' = m_output
                   /\ m_apc' = "done"
                   /\ UNCHANGED <<m_output, m_curr_date_to>>
              ELSE /\ m_output' = Extend(m_output, aggs)
                   /\ m_aresult' = "returned"
                   /\ m_returned' = Extend(m_output, aggs)
                   /\ m_apc' = "done"
                   /\ UNCHANGED m_curr_date_to

\* getWriteAggData called alone.
GetWriteLoop == WriteLoop /\ UNCHANGED twinVars

GetWriteFinal == WriteFinal /\ UNCHANGED twinVars

\* Both variants called with the same arguments, the provider answering
\* both with the same page.
BothLoop == WriteLoop /\ TwinLoop

BothFinal == WriteFinal /\ TwinFinal

-----------------------------------------------------------------------------
(* The cursor paginator: getAllTickers *)

\* polygon.rest.models.tickers.Ticker: the attributes writeTickersToCSV reads.
TickerRec(sym) ==
    [ticker |-> sym, active |-> Some(TRUE), cik |-> None,
     composite_figi |-> None, currency_name |-> Some("usd"),
     currency_symbol |-> None, base_currency_symbol |-> None,
     base_currency_name |-> None, delisted_utc |-> None,
     last_updated_utc |-> None, locale |-> Some("us"),
     market |-> Some("stocks"), primary_exchange |-> None,
     share_class_figi |-> None, type |-> Some("CS"), source_feed |-> None]

TickerPool == {TickerRec(n) : n \in 1..MaxSym}

\* s is strictly increasing by ticker symbol.
Increasing(s) == \A i \in 1..(Len(s) - 1) : s[i].ticker < s[i+1].ticker

\* The request of getAllTickers: sort is 'ticker'; ticker_gt is None in the
\* first request.
TickersRequest(limit, ticker_gt) ==
    [type |-> "CS", market |-> "stocks", sort |-> "ticker", limit |-> limit,
     ticker_gt |-> ticker_gt]

\* What the provider may answer: a page of at most limit records, sorted by
\* ticker as asked; it need not respect ticker_gt.
list_tickers(req) == {pg \in SeqsUpTo(TickerPool, req.limit) : Increasing(pg)}

\* Mutant: the cursor is the first record of the output.
CursorFirst(out) == out[1].ticker

\* Mutant: the cursor admits the last symbol again (ticker_gte for ticker_gt).
CursorInclusive(out) == out[Len(out)].ticker - 1

\* last_ticker = output[-1]; ticker_gt = last_ticker.ticker
Cursor(out) == out[Len(out)].ticker

\* while len(tickers) > 0
MorePages(pg) == Len(pg) > 0

\* output = []; tickers = list_tickers(...); output += tickers
GetAllTickersFirst ==
    /\ tpc = "first"
    /\ LET req == TickersRequest(tlimit, None)
       IN  \E pg \in list_tickers(req) :
             /\ treqs' = Append(treqs, req)
             /\ tpages' = Append(tpages, pg)
             /\ tickers' = pg
             /\ toutput' = toutput \o pg
             /\ tpc' = "loop"
    /\ UNCHANGED <<tlimit, aggVars, sinkVars, batchVars>>

\* one pass of the while loop
GetAllTickersLoop ==
    /\ tpc = "loop"
    /\ MorePages(tickers)
    /\ Len(treqs) < MaxRequests
    /\ LET req == TickersRequest(tlimit, Some(Cursor(toutput)))
       IN  \E pg \in list_tickers(req) :
             /\ treqs' = Append(treqs, req)
             /\ tpages' = Append(tpages, pg)
             /\ tickers' = pg
             /\ toutput' = toutput \o pg
             /\ tpc' = "loop"
    /\ UNCHANGED <<tlimit, aggVars, sinkVars, batchVars>>

\* A provider that respects ticker_gt: a sorted page of at most limit
\* records, all strictly above the cursor when one is given.
list_tickers_gt(req) ==
    {pg \in list_tickers(req) :
        req.ticker_gt # None =>
            \A j \in 1..Len(pg) : pg[j].ticker > req.ticker_gt[1]}

\* one pass of the while loop, against a provider that respects ticker_gt
GetAllTickersLoopGt ==
    /\ tpc = "loop"
    /\ MorePages(tickers)
    /\ LET req == TickersRequest(tlimit, Some(Cursor(toutput)))
       IN  \E pg \in list_tickers_gt(req) :
             /\ treqs' = Append(treqs, req)
             /\ tpages' = Append(tpages, pg)
             /\ tickers' = pg
             /\ toutput' = toutput \o pg
             /\ tpc' = "loop"
    /\ UNCHANGED <<tlimit, aggVars, sinkVars, batchVars>>

\* return output
GetAllTickersReturn ==
    /\ tpc = "loop"
    /\ ~MorePages(tickers)
    /\ tpc' = "done"
    /\ UNCHANGED <<tlimit, toutput, tickers, treqs, tpages, aggVars,
                   sinkVars, batchVars>>

-----------------------------------------------------------------------------
(* polygon_io_scrape.py: the batch fan-out *)

BATCH_SIZE == 30

Min(a, b) == IF a < b THEN a ELSE b

\* math.ceil((len(all_stock_tickers)+1)/BATCH_SIZE)
NumBatches(all) == (Len(all) + 1 + BATCH_SIZE - 1) \div BATCH_SIZE

\* Mutant: each slice starts on the last ticker of the slice before it.
BatchOverlap(all, i) ==
    SubSeq(all, i * (BATCH_SIZE - 1) + 1,
           IF Len(all) < (i + 1) * BATCH_SIZE THEN Len(all)
           ELSE (i + 1) * BATCH_SIZE)

\* all_stock_tickers[i*BATCH_SIZE : min(len(all_stock_tickers), (i+1)*BATCH_SIZE)]
Batch(all, i) ==
    SubSeq(all, i * BATCH_SIZE + 1, Min(Len(all), (i + 1) * BATCH_SIZE))

\* tickers = [t['ticker'] for t in tickers]
Symbols(batch) == [k \in 1..Len(batch) |-> batch[k].ticker]

\* f"data/{ticker}.csv"
FileOf(t) == "data/" \o ToString(t) \o ".csv"

\* Mutant: join returns whether or not the process has ended.
ExitedOrNot(st) == TRUE

\* p.join() returns once the process has ended, normally or not.
Exited(st) == st \in {"finished", "crashed"}

\* Mutant: the handler names the fetch error only.
CatchesFetchOnly(exc) == exc = "fetch"

\* The bare `except:` of fetch_single_ticker catches whatever is raised.
Catches(exc) == TRUE

\* for i in range(...): processes.append(Process(...))
BuildProcess ==
    /\ ppc.at = "build"
    /\ ppc.i < NumBatches(all_stock_tickers)
    /\ processes' = Append(processes, Batch(all_stock_tickers, ppc.i))
    /\ wstate' = Append(wstate, "new")
    /\ widx' = Append(widx, 1)
    /\ wphase' = Append(wphase, "fetch")
    /\ attempted' = Append(attempted, <<>>)
    /\ printed' = Append(printed, "")
    /\ wrote' = Append(wrote, "")
    /\ ppc' = [ppc EXCEPT !.i = ppc.i + 1]
    /\ UNCHANGED <<all_stock_tickers, aggVars, sinkVars, tickVars>>

\* the end of the building loop
BuildDone ==
    /\ ppc.at = "build"
    /\ ppc.i >= NumBatches(all_stock_tickers)
    /\ ppc' = [at |-> "start", i |-> 1]
    /\ UNCHANGED <<all_stock_tickers, processes, wstate, widx, wphase,
                   attempted, printed, wrote, aggVars, sinkVars, tickVars>>

\* for p in processes: p.start()
StartProcess ==
    /\ ppc.at = "start"
    /\ IF ppc.i <= Len(processes)
       THEN /\ wstate' = [wstate EXCEPT ![ppc.i] = "running"]
            /\ ppc' = [ppc EXCEPT !.i = ppc.i + 1]
       ELSE /\ ppc' = [at |-> "join", i |-> 1]
            /\ UNCHANGED wstate
    /\ UNCHANGED <<all_stock_tickers, processes, widx, wphase, attempted,
                   printed, wrote, aggVars, sinkVars, tickVars>>

\* for p in processes: p.join()
JoinProcess ==
    /\ ppc.at = "join"
    /\ IF ppc.i <= Len(processes)
       THEN /\ Exited(wstate[ppc.i])
            /\ ppc' = [ppc EXCEPT !.i = ppc.i + 1]
       ELSE ppc' = [at |-> "end", i |-> 0]
    /\ UNCHANGED <<all_stock_tickers, processes, wstate, widx, wphase,
                   attempted, printed, wrote, aggVars, sinkVars, tickVars>>

\* The except clause of fetch_single_ticker, reached with exception exc while
\* process w handles ticker t: caught, the error is printed and
\* fetch_single_ticker returns; not caught, the exception leaves
\* fetch_and_store and the process dies.
Except(w, t, exc) ==
    IF Catches(exc)
    THEN /\ printed' = [printed EXCEPT ![w] = "Error"]
         /\ widx' = [widx EXCEPT ![w] = widx[w] + 1]
         /\ wphase' = [wphase EXCEPT ![w] = "fetch"]
         /\ UNCHANGED wstate
    ELSE /\ wstate' = [wstate EXCEPT ![w] = "crashed"]
         /\ UNCHANGED <<printed, widx, wphase>>

\* fetch_single_ticker, stock_client.get_aggregate_bars(...)
WorkerFetch(w) ==
    /\ wstate[w] = "running"
    /\ wphase[w] = "fetch"
    /\ widx[w] <= Len(processes[w])
    /\ LET t == Symbols(processes[w])[widx[w]]
       IN  /\ attempted' = [attempted EXCEPT ![w] = Append(attempted[w], t)]
           /\ \E ok \in BOOLEAN :
                IF ok
                THEN /\ wphase' = [wphase EXCEPT ![w] = "write"]
                     /\ UNCHANGED <<wstate, widx, printed>>
                ELSE Except(w, t, "fetch")
    /\ UNCHANGED <<all_stock_tickers, processes, ppc, wrote, aggVars,
                   sinkVars, tickVars>>

\* fetch_single_ticker, df.to_csv(...) and the print after it; a to_csv
\* that fails may or may not have opened its file first.
WorkerWrite(w) ==
    /\ wstate[w] = "running"
    /\ wphase[w] = "write"
    /\ LET t == Symbols(processes[w])[widx[w]]
       IN  \E ok \in BOOLEAN :
             IF ok
             THEN /\ wrote' = [wrote EXCEPT ![w] = FileOf(t)]
                  /\ printed' = [printed EXCEPT ![w] = "Complete"]
                  /\ widx' = [widx EXCEPT ![w] = widx[w] + 1]
                  /\ wphase' = [wphase EXCEPT ![w] = "fetch"]
                  /\ UNCHANGED wstate
             ELSE /\ \E opened \in BOOLEAN :
                       wrote' = IF opened THEN [wrote EXCEPT ![w] = FileOf(t)]
                                ELSE wrote
                  /\ Except(w, t, "write")
    /\ UNCHANGED <<all_stock_tickers, processes, ppc, attempted, aggVars,
                   sinkVars, tickVars>>

\* fetch_and_store: the for loop is over, stock_client.close()
WorkerClose(w) ==
    /\ wstate[w] = "running"
    /\ wphase[w] = "fetch"
    /\ widx[w] > Len(processes[w])
    /\ wstate' = [wstate EXCEPT ![w] = "finished"]
    /\ UNCHANGED <<all_stock_tickers, processes, ppc, widx, wphase,
                   attempted, printed, wrote, aggVars, sinkVars, tickVars>>

-----------------------------------------------------------------------------
(* Calls of the two writers on one file *)

\* fetcher.writeAggsToCSV(filename, ticker, aggs, append)
SinkWriteAggs ==
    /\ nwrites < MaxWrites
    /\ \E ticker \in TickerNames, aggs \in SeqsUpTo(AggPool, MaxRows),
          append \in BOOLEAN :
            CallWriteAggs(ticker, aggs, append)
    /\ UNCHANGED <<aggVars, tickVars, batchVars>>

\* fetcher.writeTickersToCSV(filename, tickers, append)
SinkWriteTickers ==
    /\ nwrites < MaxWrites
    /\ \E ts \in SeqsUpTo({TickerRec(1), TickerRec(2)}, MaxRows),
          append \in BOOLEAN :
            CallWriteTickers(ts, append)
    /\ UNCHANGED <<aggVars, tickVars, batchVars>>

-----------------------------------------------------------------------------
(* Initial states and specifications *)

\* No getAggregateData runs beside getWriteAggData.
IdleTwin ==
    /\ m_curr_date_to = 0
    /\ m_apc = "done"
    /\ m_output = <<>>
    /\ m_requests = <<>>
    /\ m_aresult = "running"
    /\ m_returned = <<>>

\* No get*AggData call is running.
IdleAgg ==
    /\ IdleTwin
    /\ max_date_range = 1
    /\ call = [variant |-> "none"]
    /\ curr_date_to = 0
    /\ apc = "done"
    /\ output = <<>>
    /\ requests = <<>>
    /\ pages = <<>>
    /\ aresult = "running"
    /\ returned = <<>>

\* No getAllTickers call is running.
IdleTick ==
    /\ tlimit = 1
    /\ toutput = <<>>
    /\ tickers = <<>>
    /\ tpc = "done"
    /\ treqs = <<>>
    /\ tpages = <<>>

\* The scrape script is not running.
IdleBatch ==
    /\ all_stock_tickers = <<>>
    /\ processes = <<>>
    /\ ppc = [at |-> "end", i |-> 0]
    /\ wstate = <<>>
    /\ widx = <<>>
    /\ wphase = <<>>
    /\ attempted = <<>>
    /\ printed = <<>>
    /\ wrote = <<>>

\* The arguments of one get*AggData call, with date_from <= date_to.
AggCalls ==
    {[variant |-> v, ticker |-> t, interval |-> 1, timespan |-> "minute",
      date_from |-> f, date_to |-> f + d, adjusted |-> a, limit |-> l] :
        v \in {"mem", "write"}, t \in TickerNames, f \in 0..MaxFrom,
        d \in 0..MaxSpan, a \in BOOLEAN, l \in 1..MaxLimit}

\* A fetcher with max_date_range >= 1 day has entered get*AggData:
\* output = [], curr_date_to = date_to.
AggStart ==
    /\ max_date_range \in 1..MaxWindow
    /\ call \in AggCalls
    /\ curr_date_to = call.date_to
    /\ apc = "loop"
    /\ output = <<>>
    /\ requests = <<>>
    /\ pages = <<>>
    /\ aresult = "running"
    /\ returned = <<>>
    /\ SinkStart(NoFile)
    /\ IdleTick
    /\ IdleBatch

\* One get*AggData call, alone.
InitAgg == AggStart /\ IdleTwin

NextAgg == GetAggLoop \/ GetAggFinal \/ GetWriteLoop \/ GetWriteFinal

SpecAgg == InitAgg /\ [][NextAgg]_vars

\* getWriteAggData and getAggregateData have been entered with the same
\* arguments.
InitBoth ==
    /\ AggStart
    /\ call.variant = "write"
    /\ m_curr_date_to = call.date_to
    /\ m_apc = "loop"
    /\ m_output = <<>>
    /\ m_requests = <<>>
    /\ m_aresult = "running"
    /\ m_returned = <<>>

NextBoth == BothLoop \/ BothFinal

SpecBoth == InitBoth /\ [][NextBoth]_vars

\* The file is not there, or is there with some content.
InitFiles ==
    {NoFile, [exists |-> TRUE, rows |-> <<>>],
     [exists |-> TRUE, rows |-> << <<"old", "content">> >>]}

InitSink ==
    /\ \E f \in InitFiles : SinkStart(f)
    /\ IdleAgg
    /\ IdleTick
    /\ IdleBatch

NextSink == SinkWriteAggs \/ SinkWriteTickers

SpecSink == InitSink /\ [][NextSink]_vars

\* getAllTickers has been entered.
InitTickers ==
    /\ tlimit \in 1..MaxTLimit
    /\ toutput = <<>>
    /\ tickers = <<>>
    /\ tpc = "first"
    /\ treqs = <<>>
    /\ tpages = <<>>
    /\ IdleAgg
    /\ SinkStart(NoFile)
    /\ IdleBatch

NextTickers == GetAllTickersFirst \/ GetAllTickersLoop \/ GetAllTickersReturn

SpecTickers == InitTickers /\ [][NextTickers]_vars

NextTickersGt ==
    GetAllTickersFirst \/ GetAllTickersLoopGt \/ GetAllTickersReturn

\* getAllTickers against a provider that respects ticker_gt.
SpecTickersGt == InitTickers /\ [][NextTickersGt]_vars

\* The script has read all_stock_tickers and is about to build the batches.
\* The list holds the symbols 1..n, or has symbol 1 again in its last place.
InitBatch ==
    /\ \E n \in 0..MaxTickers, repeat \in BOOLEAN :
         all_stock_tickers =
            [k \in 1..n |-> [ticker |-> IF repeat /\ k = n THEN 1 ELSE k]]
    /\ processes = <<>>
    /\ ppc = [at |-> "build", i |-> 0]
    /\ wstate = <<>>
    /\ widx = <<>>
    /\ wphase = <<>>
    /\ attempted = <<>>
    /\ printed = <<>>
    /\ wrote = <<>>
    /\ IdleAgg
    /\ IdleTick
    /\ SinkStart(NoFile)

NextBatch ==
    \/ BuildProcess
    \/ BuildDone
    \/ StartProcess
    \/ JoinProcess
    \/ \E w \in 1..Len(processes) :
         WorkerFetch(w) \/ WorkerWrite(w) \/ WorkerClose(w)

SpecBatch == InitBatch /\ [][NextBatch]_vars

-----------------------------------------------------------------------------
(* Properties of the date-range paginator, under SpecAgg *)

Span == call.date_to - call.date_from

\* Every page so far was non-empty and below the limit.
AllPagesGood ==
    \A i \in 1..Len(pages) : Len(pages[i]) > 0 /\ Len(pages[i]) < call.limit

\* C1 as stated: with date_to - date_from = k * max_date_range + r and
\* 0 < r < max_date_range, and all pages non-empty and below the limit, a
\* finished call has sent exactly k + 1 requests, the first k each of span
\* max_date_range counting backward from date_to, the last covering
\* [date_from, date_to - k * max_date_range - 1].  It is read for k >= 1
\* (with k = 0 the range is shorter than the window, which is C2's case)
\* and on calls all of whose requests have from <= to.
C1_Original ==
    LET k == Span \div max_date_range
        r == Span % max_date_range
    IN  (/\ apc = "done"
         /\ AllPagesGood
         /\ 0 < r
         /\ k >= 1
         /\ \A i \in 1..Len(requests) : requests[i].from_ <= requests[i].to)
        => /\ Len(requests) = k + 1
           /\ \A i \in 1..k :
                /\ i <= Len(requests)
                /\ requests[i].to - requests[i].from_ = max_date_range
                /\ (i = 1 => requests[i].to = call.date_to)
           /\ requests[Len(requests)].from_ = call.date_from
           /\ requests[Len(requests)].to
                = call.date_to - k * max_date_range - 1

\* C1 amended: with date_to - date_from = k * (max_date_range + 1) + r and
\* 0 <= r < max_date_range, and all pages non-empty and below the limit, a
\* finished call has sent exactly k + 1 requests; the i-th of the first k
\* covers the max_date_range-sized span ending at
\* date_to - (i-1) * (max_date_range + 1), and the last covers
\* [date_from, date_to - k * (max_date_range + 1)].
C1_Amended ==
    LET step == max_date_range + 1
        k == Span \div step
        r == Span % step
    IN  (apc = "done" /\ AllPagesGood /\ r < max_date_range)
        => /\ Len(requests) = k + 1
           /\ \A i \in 1..k :
                /\ requests[i].to = call.date_to - (i - 1) * step
                /\ requests[i].from_ = requests[i].to - max_date_range
           /\ requests[k + 1].from_ = call.date_from
           /\ requests[k + 1].to = call.date_to - k * step

\* A finished call over at least two full windows and a remainder, every
\* page non-empty and below the limit.
C1_Witness ==
    /\ apc = "done"
    /\ AllPagesGood
    /\ Span \div (max_date_range + 1) >= 2
    /\ Span % (max_date_range + 1) < max_date_range

\* C2: with date_to - date_from < max_date_range, getAggregateData and
\* getWriteAggData send exactly one request, and it covers
\* [date_from, date_to].
C2_SingleRequest ==
    Span < max_date_range
    => /\ Len(requests) <= 1
       /\ apc = "done" =>
            /\ Len(requests) = 1
            /\ requests[1].from_ = call.date_from
            /\ requests[1].to = call.date_to

\* A finished streaming call over a range shorter than the window, of more
\* than one day.
C2_Witness ==
    /\ apc = "done"
    /\ call.variant = "write"
    /\ 0 < Span
    /\ Span < max_date_range

\* C3: an empty page (of a loop window or of the remainder) ends
\* getAggregateData at once: it is the last page requested, and the call
\* returns exactly the bars of the pages before it.
C3_EmptyStops ==
    \A i \in 1..Len(pages) :
        (call.variant = "mem" /\ pages[i] = <<>>)
        => /\ i = Len(pages)
           /\ Len(requests) = i
           /\ apc = "done"
           /\ aresult = "returned"
           /\ returned = Concat(SubSeq(pages, 1, i - 1))

\* getAggregateData got two pages of bars and then an empty page, with an
\* older window and the remainder not yet requested.
C3_Witness ==
    /\ call.variant = "mem"
    /\ Len(pages) = 3
    /\ pages[3] = <<>>
    /\ aresult = "returned"
    /\ Len(returned) >= 2
    /\ LoopCond(NextDateTo(requests[3].from_), call.date_from, max_date_range)

\* C4: a page with at least limit records makes the call raise: it is the
\* last page requested, and getAggregateData returns nothing, whatever it
\* had accumulated.
C4_LimitRaises ==
    \A i \in 1..Len(pages) :
        Len(pages[i]) >= call.limit
        => /\ i = Len(pages)
           /\ Len(requests) = i
           /\ apc = "done"
           /\ aresult = "raised"
           /\ returned = <<>>

\* getAggregateData raised at its third window with bars accumulated, older
\* windows not yet requested.
C4_Witness ==
    /\ call.variant = "mem"
    /\ aresult = "raised"
    /\ Len(pages) = 3
    /\ Len(output) >= 2
    /\ LoopCond(NextDateTo(requests[3].from_), call.date_from, max_date_range)

-----------------------------------------------------------------------------
(* Properties of the cursor paginator, under SpecTickers *)

\* The ticker symbols of a sequence of Ticker records.
Syms(ts) == [i \in 1..Len(ts) |-> ts[i].ticker]

\* C5: when the provider serves n non-empty pages and then an empty page,
\* getAllTickers sends n + 1 requests and no more, the first without a
\* cursor and each later one with ticker_gt the symbol of the last record
\* of the output so far, and it returns the pages concatenated in request
\* order.
C5_CursorRequests ==
    /\ Len(treqs) = Len(tpages)
    /\ \A i \in 1..Len(tpages) : tpages[i] = <<>> => i = Len(tpages)
    /\ \A i \in 1..Len(treqs) :
         treqs[i].ticker_gt =
            IF i = 1 THEN None
            ELSE LET sofar == Concat(SubSeq(tpages, 1, i - 1))
                 IN  Some(sofar[Len(sofar)].ticker)
    /\ toutput = Concat(tpages)
    /\ tpc = "done" => (tpages # <<>> /\ tpages[Len(tpages)] = <<>>)

\* The spec's case: pages [1,2], [3,4], [] give output [1,2,3,4] in three
\* requests with cursors None, 2, 4.
C5_Witness ==
    /\ tpc = "done"
    /\ Len(tpages) = 3
    /\ Syms(tpages[1]) = <<1, 2>>
    /\ Syms(tpages[2]) = <<3, 4>>
    /\ tpages[3] = <<>>
    /\ Syms(toutput) = <<1, 2, 3, 4>>
    /\ [i \in 1..3 |-> treqs[i].ticker_gt] = <<None, Some(2), Some(4)>>

\* Every page so far was strictly increasing by ticker symbol and held only
\* symbols strictly greater than the cursor of its request.
WellBehaved ==
    \A i \in 1..Len(tpages) :
        /\ Increasing(tpages[i])
        /\ treqs[i].ticker_gt # None =>
             \A j \in 1..Len(tpages[i]) :
                 tpages[i][j].ticker > treqs[i].ticker_gt[1]

\* C6: as long as every page is strictly increasing and above the cursor
\* requested, the output is strictly increasing by ticker symbol after every
\* page appended.
C6_OutputIncreasing == WellBehaved => Increasing(toutput)

\* Two non-empty pages of a well-behaved provider have been appended.
C6_Witness ==
    /\ WellBehaved
    /\ Len(tpages) >= 2
    /\ tpages[1] # <<>>
    /\ tpages[2] # <<>>
    /\ Len(toutput) >= 3

-----------------------------------------------------------------------------
(* Properties of the CSV sink, under SpecSink *)

Headers == {AggHeader, TickerHeader}

\* The number of header rows in a file.
HeaderCount(f) == Cardinality({i \in 1..Len(f.rows) : f.rows[i] \in Headers})

\* C7: after one or more append-mode writes to a file that was not there
\* before the first, the file holds exactly one header row, the first
\* write's, as its first row, followed by the data rows of all the writes in
\* call order.
C7_HeaderOnce ==
    (initFile = NoFile /\ allAppend /\ nwrites >= 1)
    => /\ file.exists
       /\ file.rows = <<firstCall.header>> \o dataRows
       /\ HeaderCount(file) = 1

\* Two append-mode writes, each with rows, to a file that was not there.
C7_Witness ==
    /\ initFile = NoFile
    /\ allAppend
    /\ nwrites >= 2
    /\ firstCall.rows # <<>>
    /\ lastCall.rows # <<>>

\* C8: a write puts the header iff the file was not there before the call
\* or the call truncates; a truncating write leaves the header and that
\* call's rows only; an append-mode write to a file that is there leaves
\* what it held, unchanged, in front of the new rows.
C8_HeaderIff ==
    nwrites >= 1
    => /\ file.exists
       /\ ~lastCall.append =>
            file.rows = <<lastCall.header>> \o lastCall.rows
       /\ (lastCall.append /\ ~before.exists) =>
            file.rows = <<lastCall.header>> \o lastCall.rows
       /\ (lastCall.append /\ before.exists) =>
            file.rows = before.rows \o lastCall.rows

\* A truncating write with rows to a file that held rows.
C8_Witness ==
    /\ nwrites >= 1
    /\ ~lastCall.append
    /\ before.exists
    /\ before.rows # <<>>
    /\ lastCall.rows # <<>>

\* The column names a row of writeAggsToCSV is read back under.
AggColumns ==
    {"ticker", "open", "high", "low", "close", "volume", "vwap",
     "timestamp", "transactions", "otc"}

\* The field of row under the header's column col; "<no column>" when the
\* header has no such column or the row is too short.
ReadField(header, row, col) ==
    LET k == IndexOf(header, col)
    IN  IF k = 0 \/ k > Len(row) THEN "<no column>" ELSE row[k]

\* The text of the bar's value for a column.
AggField(ticker, agg, col) ==
    CASE col = "ticker"       -> ticker
      [] col = "open"         -> CsvInt(agg.open)
      [] col = "high"         -> CsvInt(agg.high)
      [] col = "low"          -> CsvInt(agg.low)
      [] col = "close"        -> CsvInt(agg.close)
      [] col = "volume"       -> CsvInt(agg.volume)
      [] col = "vwap"         -> CsvInt(agg.vwap)
      [] col = "timestamp"    -> CsvInt(agg.timestamp)
      [] col = "transactions" -> CsvOptInt(agg.transactions)
      [] col = "otc"          -> CsvOptBool(agg.otc)

\* The rows the last write call put at the end of the file.
LastRows == SubSeq(file.rows, Len(file.rows) - Len(lastCall.records) + 1,
                   Len(file.rows))

\* C9: each row writeAggsToCSV writes has one field per header column, and
\* reading a field back under its column name gives the bar's value for it.
C9_RoundTrip ==
    lastCall.kind = "aggs"
    => \A i \in 1..Len(lastCall.records) :
         /\ Len(LastRows[i]) = Len(AggHeader)
         /\ \A col \in AggColumns :
              ReadField(AggHeader, LastRows[i], col)
                = AggField(lastCall.ticker, lastCall.records[i], col)

-----------------------------------------------------------------------------
(* Properties of the batch workers, under SpecBatch *)

IsPrefix(s, t) == Len(s) <= Len(t) /\ s = SubSeq(t, 1, Len(s))

\* C10: whatever fails for whichever symbols, a worker never dies of it: it
\* attempts the symbols of its batch once each, in list order, and
\* finishes.
C10_WorkerGoesOn ==
    \A w \in 1..Len(processes) :
        /\ wstate[w] # "crashed"
        /\ IsPrefix(attempted[w], Symbols(processes[w]))
        /\ wstate[w] = "finished" => attempted[w] = Symbols(processes[w])

\* A worker with a full batch has finished, the last symbol having failed.
C10_Witness ==
    \E w \in 1..Len(processes) :
        /\ wstate[w] = "finished"
        /\ Len(processes[w]) = BATCH_SIZE
        /\ attempted[w] = Symbols(processes[w])
        /\ printed[w] = "Error"

\* The ticker symbols of all_stock_tickers are distinct.
DistinctSymbols ==
    \A i, j \in 1..Len(all_stock_tickers) :
        i # j => all_stock_tickers[i].ticker # all_stock_tickers[j].ticker

\* The output files of the tickers handed to process w.
FilesOf(w) == {FileOf(Symbols(processes[w])[k]) : k \in 1..Len(processes[w])}

\* C11: once the batches are built, the ticker list is the batches laid end
\* to end (every place of the list is in exactly one batch) and no batch
\* holds more than BATCH_SIZE tickers; a process writes only files of its
\* own batch, and when the symbols are distinct no file belongs to two
\* batches, so no two processes write the same file, however they
\* interleave.
C11_DisjointFiles ==
    /\ ppc.at # "build" =>
         /\ Concat(processes) = all_stock_tickers
         /\ \A w \in 1..Len(processes) : Len(processes[w]) <= BATCH_SIZE
    /\ \A w \in 1..Len(processes) : wrote[w] # "" => wrote[w] \in FilesOf(w)
    /\ (ppc.at # "build" /\ DistinctSymbols) =>
         \A w1, w2 \in 1..Len(processes) :
             w1 # w2 => FilesOf(w1) \cap FilesOf(w2) = {}

\* Two processes are running at once over distinct symbols, and each has
\* written a file.
C11_Witness ==
    /\ DistinctSymbols
    /\ Len(processes) = 2
    /\ wstate[1] = "running"
    /\ wstate[2] = "running"
    /\ wrote[1] # ""
    /\ wrote[2] # ""

\* C12: the parent joins only after it has started every process, and it
\* reaches its end only when every process it started has ended.
C12_ParentWaits ==
    /\ ppc.at \in {"join", "end"} =>
         \A w \in 1..Len(processes) : wstate[w] # "new"
    /\ ppc.at = "join" =>
         \A w \in 1..(ppc.i - 1) : wstate[w] \in {"finished", "crashed"}
    /\ ppc.at = "end" =>
         \A w \in 1..Len(processes) : wstate[w] \in {"finished", "crashed"}

\* The parent has ended after two processes, the second with work to do.
C12_Witness ==
    /\ ppc.at = "end"
    /\ Len(processes) = 2
    /\ Len(processes[2]) >= 1
    /\ wstate[1] = "finished"
    /\ wstate[2] = "finished"

-----------------------------------------------------------------------------
(* Properties of the cursor paginator against a provider that respects
   ticker_gt, under SpecTickersGt *)

\* C13: over the finite symbol set 1..MaxSym and with limit >= 1, against a
\* provider that answers with symbols above the cursor in ascending order,
\* the cursor strictly increases from request to request, so the call sends
\* at most MaxSym + 1 requests; and it is never stuck before it returns.
C13_Terminates ==
    /\ \A i \in 3..Len(treqs) :
         treqs[i].ticker_gt[1] > treqs[i-1].ticker_gt[1]
    /\ Len(treqs) <= MaxSym + 1
    /\ tpc # "done" => ENABLED NextTickersGt

\* A call that took the most requests there can be, and returned.
C13_Witness ==
    /\ tpc = "done"
    /\ Len(treqs) = MaxSym + 1

RECURSIVE SortedSeq(_)
\* The elements of a finite set of naturals in ascending order.
SortedSeq(S) ==
    IF S = {} THEN <<>>
    ELSE LET m == CHOOSE x \in S : \A y \in S : x <= y
         IN  <<m>> \o SortedSeq(S \ {m})

\* The page of a provider that lists the symbol set S: the first
\* min(limit, remaining) symbols of S above the cursor, ascending.
ExactPage(S, req) ==
    LET above == IF req.ticker_gt = None THEN S
                 ELSE {x \in S : x > req.ticker_gt[1]}
        rest  == SortedSeq(above)
    IN  SubSeq(rest, 1, IF req.limit < Len(rest) THEN req.limit ELSE Len(rest))

\* Every page so far is the page of the provider that lists S.
ExactFor(S) ==
    \A i \in 1..Len(tpages) : Syms(tpages[i]) = ExactPage(S, treqs[i])

\* C20: against the provider that lists a set S of distinct symbols and
\* answers with the first min(limit, remaining) symbols above the cursor,
\* the output is at every step an initial part of S in ascending order, and
\* the returned list is all of S in ascending order, each symbol once.
C20_AllOnce ==
    \A S \in SUBSET (1..MaxSym) :
        ExactFor(S)
        => /\ IsPrefix(Syms(toutput), SortedSeq(S))
           /\ tpc = "done" => Syms(toutput) = SortedSeq(S)

\* A returned call over a set of at least three symbols that took more than
\* one non-empty page.
C20_Witness ==
    /\ tpc = "done"
    /\ Len(tpages) >= 3
    /\ \E S \in SUBSET (1..MaxSym) :
         /\ Cardinality(S) >= 3
         /\ ExactFor(S)
         /\ Syms(toutput) = SortedSeq(S)

-----------------------------------------------------------------------------
(* More properties of the date-range paginator, under SpecAgg *)

\* C14: every request sent is a sub-range of the caller's date range no
\* longer than max_date_range: from <= to, inside [date_from, date_to], and
\* to - from <= max_date_range.
C14_SubRange ==
    \A i \in 1..Len(requests) :
        /\ requests[i].from_ <= requests[i].to
        /\ call.date_from <= requests[i].from_
        /\ requests[i].to <= call.date_to
        /\ requests[i].to - requests[i].from_ <= max_date_range

\* The number of requests whose window holds day d.
WindowsWith(d) ==
    Cardinality({i \in 1..Len(requests) :
                    requests[i].from_ <= d /\ d <= requests[i].to})

\* C15: when no page is empty or at the limit, the windows of a finished
\* call tile the date range: every day of [date_from, date_to] lies in
\* exactly one window and no day outside it lies in any; each next window
\* ends one day before the start of the one before, the first ends at
\* date_to and the last starts at date_from.
C15_Tiling ==
    (apc = "done" /\ AllPagesGood)
    => /\ \A d \in (call.date_from - max_date_range - 1)..(call.date_to + 1) :
            WindowsWith(d) =
                IF call.date_from <= d /\ d <= call.date_to THEN 1 ELSE 0
       /\ \A i \in 2..Len(requests) :
            requests[i].to = requests[i-1].from_ - 1
       /\ requests[1].to = call.date_to
       /\ requests[Len(requests)].from_ = call.date_from

\* A finished call of three or more windows, every page with bars below
\* the limit, the last window holding a day.
C15_Witness ==
    /\ apc = "done"
    /\ AllPagesGood
    /\ Len(requests) >= 3
    /\ requests[Len(requests)].from_ <= requests[Len(requests)].to

\* The pages whose bars were taken: all of them, but for the page that made
\* the call raise.
TakenPages ==
    IF aresult = "raised" THEN SubSeq(pages, 1, Len(pages) - 1) ELSE pages

\* C16: each request ends strictly before the start of the request before
\* it, and the output of getAggregateData is the pages taken, in request
\* order, each in the order the provider gave it; that is what is returned.
C16_RequestOrder ==
    /\ \A i \in 2..Len(requests) : requests[i].to < requests[i-1].from_
    /\ call.variant = "mem" =>
         /\ output = Concat(TakenPages)
         /\ aresult = "returned" => returned = output

\* getAggregateData returned the bars of two windows, and they are not in
\* ascending order of timestamp.
C16_Witness ==
    /\ call.variant = "mem"
    /\ aresult = "returned"
    /\ Len(pages) >= 2
    /\ \E i \in 1..(Len(returned) - 1) :
         returned[i].timestamp > returned[i+1].timestamp

\* C18: every request carries the caller's ticker, interval, timespan,
\* limit and adjusted flag.
C18_ArgsCarried ==
    \A i \in 1..Len(requests) :
        /\ requests[i].ticker = call.ticker
        /\ requests[i].multiplier = call.interval
        /\ requests[i].timespan = call.timespan
        /\ requests[i].limit = call.limit
        /\ requests[i].adjusted = Some(call.adjusted)

\* C19: when getWriteAggData raises at a window, the file holds the header
\* and the rows of the windows before it, in order, and nothing of the
\* window that raised; when it raises at the first window the file has not
\* been made.
C19_PartialFile ==
    (call.variant = "write" /\ aresult = "raised")
    => LET prior == AggRows(call.ticker, Concat(TakenPages))
       IN  /\ dataRows = prior
           /\ file = IF Len(pages) = 1 THEN NoFile
                     ELSE [exists |-> TRUE, rows |-> <<AggHeader>> \o prior]

\* getWriteAggData raised at its third window, two windows' rows written.
C19_Witness ==
    /\ call.variant = "write"
    /\ aresult = "raised"
    /\ Len(pages) = 3
    /\ file.exists
    /\ Len(file.rows) >= 3

-----------------------------------------------------------------------------
(* getWriteAggData against getAggregateData, under SpecBoth *)

\* C17: called with the same arguments and given the same pages,
\* getWriteAggData sends the requests getAggregateData sends, is at every
\* step where getAggregateData is (same cursor, still running or stopped,
\* returned or raised), and when both have returned the data rows appended
\* to the file are the rows of the bars getAggregateData returned, in order.
C17_SameRun ==
    /\ requests = m_requests
    /\ curr_date_to = m_curr_date_to
    /\ apc = m_apc
    /\ aresult = m_aresult
    /\ aresult = "returned" => dataRows = AggRows(call.ticker, m_returned)

\* Both returned after two or more windows, rows of two windows in the file.
C17_Witness ==
    /\ aresult = "returned"
    /\ m_aresult = "returned"
    /\ Len(requests) >= 2
    /\ Len(dataRows) >= 2
    /\ file.exists

=============================================================================
